---- MODULE Spec2Model ----
(***************************************************************************)
(* A model of the Prometheus provider of the metrics extension server:     *)
(* the execute and getDashboard request handlers, executeGraphQuery (query *)
(* template rendering and the range query), and the header-injecting       *)
(* transport headerRoundTripper.                                           *)
(*                                                                         *)
(* Text is modelled as a sequence of one-character strings, so that        *)
(* joining, escaping, parsing and header canonicalisation are computed     *)
(* character by character.  A query template is a sequence of tokens: a    *)
(* one-character literal, the action delimiters "{{" and "}}", or a field  *)
(* reference such as ".ns".                                                *)
(***************************************************************************)
EXTENDS Integers, Sequences, FiniteSets, TLC

VARIABLES
    config,          \* pp.config: the shared configuration tree
    req,             \* the execute request being handled (path and query parameters)
    pc,              \* position of the execute handler
    duration,        \* execute: the parsed duration, in milliseconds
    graph,           \* execute: the resolved graph, a path into config, or NoGraph
    notFoundAt,      \* execute: the level whose lookup returned nil (0: none)
    idx,             \* execute: index of the next threshold of the loop
    data,            \* execute: the AggregatedResponse being built
    resp,            \* execute: what the handler wrote with ctx.JSON
    attempts,        \* history: the executeGraphQuery invocations of this request
    calls,           \* history: the QueryRange calls received by the backend
    dashResp,        \* getDashboard: what the handler wrote with ctx.JSON
    built,           \* history: the configuration tree as built at startup
    headers,         \* headerRoundTripper.headers of run A and of run B
    outHeader,       \* req.Header of the outbound request, per run
    log,             \* standard output of the transport, per run
    tpc              \* position of the transport

vars == <<config, req, pc, duration, graph, notFoundAt, idx, data, resp,
          attempts, calls, dashResp, built, headers, outHeader, log, tpc>>

handlerVars == <<config, req, pc, duration, graph, notFoundAt, idx, data, resp,
                 attempts, calls, dashResp, built>>

transportVars == <<headers, outHeader, log, tpc>>

Nil == <<"nil">>

\* The nil *Graph: a path that points nowhere.
NoGraph == [app |-> 0, dash |-> 0, row |-> 0, graph |-> 0]

-----------------------------------------------------------------------------
(* Text helpers *)

RECURSIVE Flatten(_)
\* Concatenation of a sequence of texts.
Flatten(ss) == IF ss = <<>> THEN <<>> ELSE Head(ss) \o Flatten(Tail(ss))

RECURSIVE Join(_, _)
\* strings.Join(v, sep)
Join(v, sep) ==
    IF v = <<>> THEN <<>>
    ELSE IF Len(v) = 1 THEN v[1]
    ELSE v[1] \o sep \o Join(Tail(v), sep)

\* All sequences over S of length at most n.
BoundedSeq(S, n) == UNION {[1..k -> S] : k \in 0..n}

-----------------------------------------------------------------------------
(* html/template, as executeGraphQuery uses it *)

\* The field references a template token can be: a parameter name, or a
\* chained reference into a parameter (a field of a string).
FieldPath(tok) ==
    CASE tok = ".ns" -> <<"ns">>
      [] tok = ".job" -> <<"job">>
      [] tok = ".duration" -> <<"duration">>
      [] tok = ".ns.x" -> <<"ns", "x">>
      [] OTHER -> <<>>

IsField(tok) == FieldPath(tok) # <<>>

RECURSIVE parseNodes(_, _)
\* template.New("query").Parse: text outside "{{" ... "}}" is a text node (a
\* stray "}}" included); an action must hold exactly one field reference and
\* be closed, anything else is a parse error.
parseNodes(t, i) ==
    IF i > Len(t) THEN [err |-> FALSE, nodes |-> <<>>]
    ELSE IF t[i] = "{{"
    THEN IF i + 2 <= Len(t) /\ IsField(t[i + 1]) /\ t[i + 2] = "}}"
         THEN LET rest == parseNodes(t, i + 3)
              IN  [err |-> rest.err,
                   nodes |-> <<[field |-> FieldPath(t[i + 1]), text |-> <<>>]>> \o rest.nodes]
         ELSE [err |-> TRUE, nodes |-> <<>>]
    ELSE LET rest == parseNodes(t, i + 1)
         IN  [err |-> rest.err,
              nodes |-> <<[field |-> <<>>, text |-> <<t[i]>>]>> \o rest.nodes]

templateParse(queryExpression) == parseNodes(queryExpression, 1)

\* html/template escapes every value printed in text context with its
\* htmlReplacementTable.
htmlReplacement(c) ==
    CASE c = "\"" -> <<"&", "#", "3", "4", ";">>
      [] c = "'" -> <<"&", "#", "3", "9", ";">>
      [] c = "&" -> <<"&", "a", "m", "p", ";">>
      [] c = "+" -> <<"&", "#", "4", "3", ";">>
      [] c = "<" -> <<"&", "l", "t", ";">>
      [] c = ">" -> <<"&", "g", "t", ";">>
      [] OTHER -> <<c>>

htmlEscape(s) == Flatten([i \in DOMAIN s |-> htmlReplacement(s[i])])

\* Evaluation of a field reference on the map[string]string: a key the map
\* lacks yields the zero value "" (the default missingkey option); a further
\* field of the string value cannot be evaluated.
evalField(path, env1) ==
    IF Len(path) > 1 THEN [err |-> TRUE, text |-> <<>>]
    ELSE IF path[1] \in DOMAIN env1
    THEN [err |-> FALSE, text |-> htmlEscape(env1[path[1]])]
    ELSE [err |-> FALSE, text |-> <<>>]

RECURSIVE templateExecute(_, _)
\* tmpl.Execute(buf, env1): the text nodes verbatim, the field nodes
\* evaluated and escaped; the first failing node aborts execution.
templateExecute(nodes, env1) ==
    IF nodes = <<>> THEN [err |-> FALSE, out |-> <<>>]
    ELSE LET n == Head(nodes)
             v == IF n.field = <<>> THEN [err |-> FALSE, text |-> n.text]
                  ELSE evalField(n.field, env1)
         IN  IF v.err THEN [err |-> TRUE, out |-> <<>>]
             ELSE LET rest == templateExecute(Tail(nodes), env1)
                  IN  [err |-> rest.err, out |-> IF rest.err THEN <<>> ELSE v.text \o rest.out]

\* Lines 160-163: every parameter's values joined with ",".
joinEnv(env) == [k \in DOMAIN env |-> Join(env[k], <<",">>)]

-----------------------------------------------------------------------------
(* time.ParseDuration and the range of the query *)

Digits == <<"0", "1", "2", "3", "4", "5", "6", "7", "8", "9">>

IsDigit(c) == \E d \in DOMAIN Digits : Digits[d] = c

DigitValue(c) == (CHOOSE d \in DOMAIN Digits : Digits[d] = c) - 1

\* unitMap of package time, in milliseconds (the resolution of this model).
UnitMs(u) ==
    CASE u = <<"m", "s">> -> 1
      [] u = <<"s">> -> 1000
      [] u = <<"m">> -> 60000
      [] u = <<"h">> -> 3600000
      [] OTHER -> 0

RECURSIVE leadingInt(_, _, _)
\* Consumes the leading digits of s from position i: [v, next].
leadingInt(s, i, acc) ==
    IF i <= Len(s) /\ IsDigit(s[i])
    THEN leadingInt(s, i + 1, acc * 10 + DigitValue(s[i]))
    ELSE [v |-> acc, next |-> i]

RECURSIVE unitEnd(_, _)
\* The unit runs up to the next digit or the end of the text.
unitEnd(s, i) == IF i <= Len(s) /\ ~IsDigit(s[i]) THEN unitEnd(s, i + 1) ELSE i

RECURSIVE parseTerms(_, _, _)
\* The loop of time.ParseDuration: one or more <digits><unit> terms.
parseTerms(s, i, acc) ==
    IF i > Len(s) THEN [err |-> FALSE, d |-> acc]
    ELSE IF ~IsDigit(s[i]) THEN [err |-> TRUE, d |-> 0]
    ELSE LET n == leadingInt(s, i, 0)
             e == unitEnd(s, n.next)
             u == SubSeq(s, n.next, e - 1)
         IN  IF u = <<>> \/ UnitMs(u) = 0 THEN [err |-> TRUE, d |-> 0]
             ELSE parseTerms(s, e, acc + n.v * UnitMs(u))

\* time.ParseDuration(s): optional sign, the special case "0", then the terms.
ParseDuration(s) ==
    LET neg == s # <<>> /\ s[1] = "-"
        body == IF s # <<>> /\ s[1] \in {"-", "+"} THEN Tail(s) ELSE s
    IN  IF body = <<"0">> THEN [err |-> FALSE, d |-> 0]
        ELSE IF body = <<>> THEN [err |-> TRUE, d |-> 0]
        ELSE LET r == parseTerms(body, 1, 0)
             IN  IF r.err THEN r ELSE [err |-> FALSE, d |-> IF neg THEN 0 - r.d ELSE r.d]

-----------------------------------------------------------------------------
(* The configuration tree and its lookups *)

\* The largest number of thresholds of the graph the tree is built with.
MaxThresholds == 2

PROMETHEUS_TYPE == "prometheus"

\* Query templates of the modelled tree.
UsageTmpl == <<"c", "{{", ".ns", "}}">>
UnclosedTmpl == <<"c", "{{", ".ns">>
ExprTmpl == <<"m", "{{", ".ns", "}}">>
ChainTmpl == <<"{{", ".ns.x", "}}">>
LiteralTmpl == <<"8", "0">>

\* The threshold definitions a graph is built from: a literal value or none,
\* with a query expression that renders or one that fails to.
ThresholdDefs ==
    { [Key |-> "warn", Name |-> "Warn", Color |-> "yellow", Unit |-> "pct",
       Value |-> LiteralTmpl, QueryExpression |-> ExprTmpl],
      [Key |-> "high", Name |-> "High", Color |-> "orange", Unit |-> "ms",
       Value |-> LiteralTmpl, QueryExpression |-> ChainTmpl],
      [Key |-> "crit", Name |-> "Crit", Color |-> "red", Unit |-> "cores",
       Value |-> <<>>, QueryExpression |-> ExprTmpl],
      [Key |-> "fail", Name |-> "Fail", Color |-> "black", Unit |-> "b",
       Value |-> <<>>, QueryExpression |-> ChainTmpl] }

\* A tree with one application, one dashboard and one row of two graphs;
\* hasDefault flags the application and the dashboard as the default entries.
ConfigTree(hasDefault, thresholds) ==
    [Provider |-> [Name |-> "default", Address |-> "https://localhost:9090"],
     Applications |-> <<
        [Name |-> "app1", Default |-> hasDefault,
         Dashboards |-> <<
            [GroupKind |-> "Deployment", Default |-> hasDefault, ProviderType |-> "",
             Rows |-> <<
                [Name |-> "cpu",
                 Graphs |-> <<
                    [Name |-> "usage", QueryExpression |-> UsageTmpl,
                     Thresholds |-> thresholds],
                    [Name |-> "broken", QueryExpression |-> UnclosedTmpl,
                     Thresholds |-> <<>>] >>] >>] >>] >>]

ConfigTrees ==
    {ConfigTree(d, t) : d \in BOOLEAN, t \in BoundedSeq(ThresholdDefs, MaxThresholds)}

\* First index of s whose entry satisfies exact, else first flagged default,
\* else 0 (nil).
FirstIndex(S) == IF S = {} THEN 0 ELSE CHOOSE i \in S : \A j \in S : i <= j

getApp(cfg, name) ==
    LET apps == cfg.Applications
        exact == {i \in DOMAIN apps : apps[i].Name = name}
        dflt == {i \in DOMAIN apps : apps[i].Default}
    IN  IF exact # {} THEN FirstIndex(exact) ELSE FirstIndex(dflt)

getDashBoard(app, groupKind) ==
    LET ds == app.Dashboards
        exact == {i \in DOMAIN ds : ds[i].GroupKind = groupKind}
        dflt == {i \in DOMAIN ds : ds[i].Default}
    IN  IF exact # {} THEN FirstIndex(exact) ELSE FirstIndex(dflt)

getRow(dashboard, name) ==
    FirstIndex({i \in DOMAIN dashboard.Rows : dashboard.Rows[i].Name = name})

getGraph(row, name) ==
    FirstIndex({i \in DOMAIN row.Graphs : row.Graphs[i].Name = name})

\* The entity a path of indices points to.
AppAt(cfg, p) == cfg.Applications[p.app]
DashAt(cfg, p) == AppAt(cfg, p).Dashboards[p.dash]
RowAt(cfg, p) == DashAt(cfg, p).Rows[p.row]
GraphAt(cfg, p) == RowAt(cfg, p).Graphs[p.graph]

-----------------------------------------------------------------------------
(* Requests, the backend and responses *)

StatusOK == 200
StatusBadRequest == 400
StepMs == 60000

Applications == {"app1", "other"}
GroupKinds == {"Deployment", "Pod"}
RowNames == {"cpu", "mem"}
GraphNames == {"usage", "broken", "disk"}

\* Values of the duration query parameter: absent, empty, valid, malformed.
DurationParams ==
    { <<>>, << <<>> >>, << <<"1", "h", "3", "0", "m">> >>, << <<"b", "o", "g", "u", "s">> >> }

\* Values of the ns query parameter: absent, one value, two values.
NsParams == { <<>>, << <<"p">> >>, << <<"a">>, <<"+">> >> }

\* ctx.Request.URL.Query(): the parameters that have at least one value.
URLQuery(query) == [k \in {k \in DOMAIN query : query[k] # <<>>} |-> query[k]]

\* ctx.Query(key): the first value of the parameter, "" when it has none.
Query(query, key) ==
    IF key \in DOMAIN URLQuery(query) THEN URLQuery(query)[key][1] ELSE <<>>

\* What the backend answers to one QueryRange call.
BackendOutcomes ==
    [err : {TRUE}, result : {"nil"}, warnings : {<<>>, <<"w">>}]
    \cup [err : {FALSE}, result : {"vector", "unmarshalable"}, warnings : {<<>>, <<"w">>}]

\* json.Marshal of a query result.
jsonMarshalValue(result) ==
    IF result = "unmarshalable" THEN [err |-> TRUE, raw |-> <<>>]
    ELSE [err |-> FALSE, raw |-> <<"json", result>>]

NoBody == [kind |-> "none", text |-> "", keys |-> {}, data |-> <<>>, thresholds |-> <<>>]

\* The JSON gin renders for obj: a string as a JSON string; an error value
\* built by fmt.Errorf, which exports no field, as the empty object; an
\* AggregatedResponse as an object whose thresholds key is omitted when empty.
jsonBody(obj) ==
    CASE obj.type = "string" ->
            [NoBody EXCEPT !.kind = "string", !.text = obj.msg]
      [] obj.type = "error" ->
            [NoBody EXCEPT !.kind = "object"]
      [] obj.type = "AggregatedResponse" ->
            [NoBody EXCEPT !.kind = "object",
                           !.keys = IF obj.Thresholds = <<>> THEN {"data"}
                                    ELSE {"data", "thresholds"},
                           !.data = obj.Data,
                           !.thresholds = obj.Thresholds]

\* ctx.JSON(code, obj)
JSON(code, obj) == [status |-> code, body |-> jsonBody(obj)]

Str(msg) == [type |-> "string", msg |-> msg]
Errorf(msg) == [type |-> "error", msg |-> msg]
NoError == [type |-> "nil", msg |-> ""]

\* A handler that returns without writing: the framework answers with its
\* default status and an empty body.
Unwritten == [status |-> StatusOK, body |-> NoBody]

NoResp == [status |-> 0, body |-> NoBody]

EmptyData == [type |-> "AggregatedResponse", Data |-> <<>>, Thresholds |-> <<>>]

-----------------------------------------------------------------------------
(* executeGraphQuery *)

\* v1.Range of the call, relative to time.Now() = 0.
QueryRange(strQuery, d) ==
    [query |-> strQuery, Start |-> 0 - d, End |-> 0, Step |-> StepMs]

\* executeGraphQuery without the check of lines 218-221: warnings are dropped.
executeGraphQueryWarningsDropped(queryExpression, env, d, outcome) ==
    LET tmpl == templateParse(queryExpression)
        ex == templateExecute(tmpl.nodes, joinEnv(env))
        call == QueryRange(ex.out, d)
    IN  IF tmpl.err
        THEN [result |-> "nil", warnings |-> <<>>,
              err |-> Errorf("error parsing query template"), sent |-> <<>>]
        ELSE IF ex.err
        THEN [result |-> "nil", warnings |-> <<>>,
              err |-> Errorf("error executing template"), sent |-> <<>>]
        ELSE IF outcome.err
        THEN [result |-> "nil", warnings |-> outcome.warnings,
              err |-> Errorf("error querying prometheus"), sent |-> <<call>>]
        ELSE [result |-> outcome.result, warnings |-> <<>>,
              err |-> NoError, sent |-> <<call>>]

\* executeGraphQuery(ctx, queryExpression, env, duration, pp), the backend
\* answering outcome if it is called: the values returned, and in sent the
\* QueryRange call issued, if any.
executeGraphQuery(queryExpression, env, d, outcome) ==
    LET tmpl == templateParse(queryExpression)
        ex == templateExecute(tmpl.nodes, joinEnv(env))
        call == QueryRange(ex.out, d)
    IN  IF tmpl.err
        THEN [result |-> "nil", warnings |-> <<>>,
              err |-> Errorf("error parsing query template"), sent |-> <<>>]
        ELSE IF ex.err
        THEN [result |-> "nil", warnings |-> <<>>,
              err |-> Errorf("error executing template"), sent |-> <<>>]
        ELSE IF outcome.err
        THEN [result |-> "nil", warnings |-> outcome.warnings,
              err |-> Errorf("error querying prometheus"), sent |-> <<call>>]
        ELSE IF Len(outcome.warnings) > 0
        THEN [result |-> outcome.result, warnings |-> outcome.warnings,
              err |-> Errorf("query warnings"), sent |-> <<call>>]
        ELSE [result |-> outcome.result, warnings |-> <<>>,
              err |-> NoError, sent |-> <<call>>]

-----------------------------------------------------------------------------
(* The execute handler *)

DefaultDuration == <<"1", "h">>

\* durationStr without the default of lines 233-235.
durationStrNoDefault(query) == Query(query, "duration")

\* Lines 232-235: the duration literal the handler parses.
durationStr(query) ==
    IF Query(query, "duration") = <<>> THEN DefaultDuration ELSE Query(query, "duration")

\* Lines 244-259: the walk down the tree.  level is the first level whose
\* lookup returned nil (1 application, 2 dashboard, 3 row, 4 graph), 0 when
\* the graph was found; path holds the indices found.
resolve(cfg, r) ==
    LET a == getApp(cfg, r.application)
        d == IF a = 0 THEN 0 ELSE getDashBoard(cfg.Applications[a], r.groupkind)
        w == IF d = 0 THEN 0 ELSE getRow(cfg.Applications[a].Dashboards[d], r.row)
        g == IF w = 0 THEN 0
             ELSE getGraph(cfg.Applications[a].Dashboards[d].Rows[w], r.graph)
    IN  [level |-> IF a = 0 THEN 1 ELSE IF d = 0 THEN 2 ELSE IF w = 0 THEN 3
                   ELSE IF g = 0 THEN 4 ELSE 0,
         path |-> [app |-> a, dash |-> d, row |-> w, graph |-> g]]

\* Lines 245-257: the response to a nil application, dashboard or row.
notFoundMessage(level) ==
    CASE level = 1 -> "Requested/Default Application not found"
      [] level = 2 -> "Requested/Default Dashboard not found"
      [] level = 3 -> "Requested Row not found"

\* thresholdQuery with the precedence reversed: the expression when there is one.
thresholdQueryExpressionFirst(threshold) ==
    IF threshold.QueryExpression # <<>>
    THEN [field |-> "QueryExpression", expr |-> threshold.QueryExpression]
    ELSE [field |-> "Value", expr |-> threshold.Value]

\* Lines 293-298: the text of a threshold that is executed.
thresholdQuery(threshold) ==
    IF threshold.Value # <<>>
    THEN [field |-> "Value", expr |-> threshold.Value]
    ELSE [field |-> "QueryExpression", expr |-> threshold.QueryExpression]

\* thresholdResponse with the key taken from the name.
thresholdResponseKeyFromName(threshold, raw) ==
    [Data |-> raw, Key |-> threshold.Name, Name |-> threshold.Name,
     Color |-> threshold.Color, Value |-> threshold.Value, Unit |-> threshold.Unit]

\* Lines 308-314: the ThresholdResponse of a threshold.
thresholdResponse(threshold, raw) ==
    [Data |-> raw, Key |-> threshold.Key, Name |-> threshold.Name,
     Color |-> threshold.Color, Value |-> threshold.Value, Unit |-> threshold.Unit]

\* Lines 228-260: a request arrives; the handler parses the duration and
\* walks the tree, and either answers or goes on to the primary query.
execute(application, groupkind, row, graphName, query) ==
    LET r == [application |-> application, groupkind |-> groupkind, row |-> row,
              graph |-> graphName, query |-> query]
        d == ParseDuration(durationStr(query))
        found == resolve(config, r)
    IN  /\ pc = "idle"
        /\ req' = r
        /\ attempts' = <<>>
        /\ calls' = <<>>
        /\ data' = EmptyData
        /\ idx' = 0
        /\ IF d.err
           THEN /\ resp' = JSON(StatusBadRequest, Str("Invalid duration format :"))
                /\ pc' = "done"
                /\ duration' = 0
                /\ graph' = NoGraph
                /\ notFoundAt' = 0
           ELSE /\ duration' = d.d
                /\ notFoundAt' = found.level
                /\ IF found.level \in 1..3
                   THEN /\ resp' = JSON(StatusBadRequest, Str(notFoundMessage(found.level)))
                        /\ pc' = "done"
                        /\ graph' = NoGraph
                   ELSE IF found.level = 4
                   THEN /\ resp' = Unwritten
                        /\ pc' = "done"
                        /\ graph' = NoGraph
                   ELSE /\ resp' = NoResp
                        /\ pc' = "primary"
                        /\ graph' = found.path
        /\ UNCHANGED <<config, dashResp, built>>
        /\ UNCHANGED transportVars

\* Lines 262-286: the primary query of the graph returns.
primaryQuery(outcome) ==
    LET g == GraphAt(config, graph)
        env == URLQuery(req.query)
        q == executeGraphQuery(g.QueryExpression, env, duration, outcome)
        m == jsonMarshalValue(q.result)
    IN  /\ pc = "primary"
        /\ attempts' = Append(attempts, [threshold |-> 0, field |-> "QueryExpression",
                                         expr |-> g.QueryExpression])
        /\ calls' = calls \o [i \in DOMAIN q.sent |->
                                [call |-> q.sent[i], outcome |-> outcome, threshold |-> 0]]
        /\ IF q.err.type # "nil"
           THEN /\ resp' = JSON(StatusBadRequest, q.err)
                /\ pc' = "done"
                /\ UNCHANGED <<data, idx>>
           ELSE IF Len(q.warnings) > 0
           THEN /\ resp' = JSON(StatusBadRequest, Str("query warnings"))
                /\ pc' = "done"
                /\ UNCHANGED <<data, idx>>
           ELSE IF m.err
           THEN /\ resp' = JSON(StatusBadRequest, Errorf("error marshaling the data"))
                /\ pc' = "done"
                /\ UNCHANGED <<data, idx>>
           ELSE /\ data' = [data EXCEPT !.Data = m.raw]
                /\ idx' = 1
                /\ pc' = "thresholds"
                /\ UNCHANGED resp
        /\ UNCHANGED <<config, req, duration, graph, notFoundAt, dashResp, built>>
        /\ UNCHANGED transportVars

\* Lines 288-321: one iteration of the loop over graph.Thresholds.
thresholdStep(outcome) ==
    LET g == GraphAt(config, graph)
        threshold == g.Thresholds[idx]
        env == URLQuery(req.query)
        t == thresholdQuery(threshold)
        q == executeGraphQuery(t.expr, env, duration, outcome)
        m == jsonMarshalValue(q.result)
    IN  /\ pc = "thresholds"
        /\ idx <= Len(g.Thresholds)
        /\ attempts' = Append(attempts, [threshold |-> idx, field |-> t.field,
                                         expr |-> t.expr])
        /\ calls' = calls \o [i \in DOMAIN q.sent |->
                                [call |-> q.sent[i], outcome |-> outcome, threshold |-> idx]]
        /\ IF q.err.type # "nil"
           THEN /\ resp' = JSON(StatusBadRequest, q.err)
                /\ pc' = "done"
                /\ UNCHANGED <<data, idx>>
           ELSE IF Len(q.warnings) > 0
           THEN /\ resp' = JSON(StatusBadRequest, Str("query warnings"))
                /\ pc' = "done"
                /\ UNCHANGED <<data, idx>>
           ELSE IF m.err
           THEN /\ resp' = JSON(StatusBadRequest,
                                Errorf("error marshaling the threshold response"))
                /\ pc' = "done"
                /\ UNCHANGED <<data, idx>>
           ELSE /\ data' = [data EXCEPT !.Thresholds =
                                Append(@, thresholdResponse(threshold, m.raw))]
                /\ idx' = idx + 1
                /\ UNCHANGED <<resp, pc>>
        /\ UNCHANGED <<config, req, duration, graph, notFoundAt, dashResp, built>>
        /\ UNCHANGED transportVars

\* Lines 323-326: the loop is over; the aggregated response is written.
respond ==
    /\ pc = "thresholds"
    /\ idx > Len(GraphAt(config, graph).Thresholds)
    /\ resp' = JSON(StatusOK, data)
    /\ pc' = "done"
    /\ UNCHANGED <<config, req, duration, graph, notFoundAt, idx, data, attempts, calls,
                   dashResp, built>>
    /\ UNCHANGED transportVars

-----------------------------------------------------------------------------
(* The getDashboard handler *)

NoDashResp == [status |-> 0, text |-> "", dash |-> Nil]

\* Lines 84-100.  The dashboard the lookup returns is the entity of the
\* tree, so the assignment of line 98 writes to the tree.
getDashboard(appName, groupKind) ==
    LET a == getApp(config, appName)
        d == IF a = 0 THEN 0 ELSE getDashBoard(config.Applications[a], groupKind)
        written == [config EXCEPT
                       !.Applications[a].Dashboards[d].ProviderType = PROMETHEUS_TYPE]
    IN  /\ IF a = 0
           THEN /\ dashResp' = [status |-> StatusBadRequest,
                                text |-> "Requested/Default Application not found",
                                dash |-> Nil]
                /\ UNCHANGED config
           ELSE IF d = 0
           THEN /\ dashResp' = [status |-> StatusBadRequest,
                                text |-> "Requested/Default Dashboard not found",
                                dash |-> Nil]
                /\ UNCHANGED config
           ELSE /\ config' = written
                /\ dashResp' = [status |-> StatusOK, text |-> "",
                                dash |-> written.Applications[a].Dashboards[d]]
        /\ UNCHANGED <<req, pc, duration, graph, notFoundAt, idx, data, resp, attempts,
                       calls, built>>
        /\ UNCHANGED transportVars

-----------------------------------------------------------------------------
(* The transport that injects the API key *)

\* The largest number of outbound requests of one run.
MaxRoundTrips == 2

Runs == {"A", "B"}

Lower == <<"a", "b", "c", "d", "e", "f", "g", "h", "i", "j", "k", "l", "m",
           "n", "o", "p", "q", "r", "s", "t", "u", "v", "w", "x", "y", "z">>
Upper == <<"A", "B", "C", "D", "E", "F", "G", "H", "I", "J", "K", "L", "M",
           "N", "O", "P", "Q", "R", "S", "T", "U", "V", "W", "X", "Y", "Z">>

toUpper(c) ==
    IF \E i \in DOMAIN Lower : Lower[i] = c
    THEN Upper[CHOOSE i \in DOMAIN Lower : Lower[i] = c] ELSE c

toLower(c) ==
    IF \E i \in DOMAIN Upper : Upper[i] = c
    THEN Lower[CHOOSE i \in DOMAIN Upper : Upper[i] = c] ELSE c

\* textproto.CanonicalMIMEHeaderKey for names of letters, digits and "-":
\* the first letter and every letter after a "-" in upper case, the others
\* in lower case.
CanonicalMIMEHeaderKey(s) ==
    [i \in DOMAIN s |-> IF i = 1 \/ s[i - 1] = "-" THEN toUpper(s[i]) ELSE toLower(s[i])]

\* A Go map as the set of its entries.
Keys(m) == {e.k : e \in m}
Get(m, k) == (CHOOSE e \in m : e.k = k).v

\* http.Header.Add(key, value): the value appended under the canonical name.
HeaderAdd(h, key, value) ==
    LET k == CanonicalMIMEHeaderKey(key)
    IN  IF k \in Keys(h)
        THEN {e \in h : e.k # k} \cup {[k |-> k, v |-> Append(Get(h, k), value)]}
        ELSE h \cup {[k |-> k, v |-> <<value>>]}

apikey == <<"a", "p", "i", "k", "e", "y">>

\* Values of the PROMETHEUS_APIKEY environment variable (<<>>: not set).
ApiKeys == { <<>>, <<"s", "1">>, <<"s", "2">>, <<"t">> }

\* Lines 133-142 of init: the round tripper installed and its headers; when
\* the variable is empty the plain transport is used.
initHeaders(apiKey) ==
    IF apiKey # <<>>
    THEN [installed |-> TRUE, map |-> {[k |-> apikey, v |-> apiKey]}]
    ELSE [installed |-> FALSE, map |-> {}]

URLs == { <<"u", "1">>, <<"u", "2">> }

\* Headers the client library has set on the request before the transport.
ClientHeaders ==
    { {}, {[k |-> <<"A", "c", "c", "e", "p", "t">>, v |-> << <<"j">> >>]} }

\* The orders in which a range loop can visit the keys of a map.
Orders(S) == {o \in [1..Cardinality(S) -> S] : \A i, j \in DOMAIN o : o[i] = o[j] => i = j}

RECURSIVE addAll(_, _, _)
\* Lines 56-57: req.Header after the first loop.
addAll(h, hs, order) ==
    IF order = <<>> THEN h
    ELSE addAll(HeaderAdd(h, Head(order), Get(hs, Head(order))), hs, Tail(order))

\* Lines 59-63: the line printed for one header added.
addedLine(k, v) ==
    IF k # apikey
    THEN [format |-> "Added header: %s: %s", args |-> << <<k>>, <<v>> >>]
    ELSE [format |-> "Added header: %s: [REDACTED]", args |-> << <<k>> >>]

\* Lines 69-73: the line printed for one header of the request.
headerLine(k, v) ==
    IF k # apikey
    THEN [format |-> "  %s: %s", args |-> << <<k>>, v >>]
    ELSE [format |-> "  %s: [REDACTED]", args |-> << <<k>> >>]

\* Lines 51-77: the request header after the call and the lines it prints,
\* the two range loops visiting their maps in the orders given.
RoundTripOf(hs, url, h, order1, order2) ==
    LET h2 == addAll(h, hs, order1)
    IN  [header |-> h2,
         lines |-> << [format |-> "Making request to: %s", args |-> << <<url>> >>] >>
                   \o [i \in DOMAIN order1 |-> addedLine(order1[i], Get(hs, order1[i]))]
                   \o << [format |-> "All request headers:", args |-> <<>>] >>
                   \o [i \in DOMAIN order2 |-> headerLine(order2[i], Get(h2, order2[i]))]]

\* One outbound request, made in run A and in run B with the same URL, the
\* same client headers and the same iteration orders.  Without an API key
\* the plain transport is used and prints nothing.
RoundTrip(url, h) ==
    /\ tpc < MaxRoundTrips
    /\ tpc' = tpc + 1
    /\ IF ~headers["A"].installed
       THEN /\ outHeader' = [r \in Runs |-> h]
            /\ UNCHANGED log
       ELSE \E order1 \in Orders(Keys(headers["A"].map)) :
            \E order2 \in Orders(Keys(addAll(h, headers["A"].map, order1))) :
                LET rt == [r \in Runs |->
                              RoundTripOf(headers[r].map, url, h, order1, order2)]
                IN  /\ outHeader' = [r \in Runs |-> rt[r].header]
                    /\ log' = [r \in Runs |-> log[r] \o rt[r].lines]
    /\ UNCHANGED headers
    /\ UNCHANGED handlerVars

-----------------------------------------------------------------------------
(* Specifications *)

\* The handlers: a tree built at startup, then requests.
Init ==
    /\ config \in ConfigTrees
    /\ built = config
    /\ req = Nil
    /\ pc = "idle"
    /\ duration = 0
    /\ graph = NoGraph
    /\ notFoundAt = 0
    /\ idx = 0
    /\ data = EmptyData
    /\ resp = NoResp
    /\ attempts = <<>>
    /\ calls = <<>>
    /\ dashResp = NoDashResp
    /\ headers = [r \in Runs |-> initHeaders(<<>>)]
    /\ outHeader = [r \in Runs |-> {}]
    /\ log = [r \in Runs |-> <<>>]
    /\ tpc = 0

Request ==
    \E a \in Applications, k \in GroupKinds, w \in RowNames, g \in GraphNames :
        \E d \in DurationParams, n \in NsParams :
            execute(a, k, w, g, [duration |-> d, ns |-> n])

Primary == \E o \in BackendOutcomes : primaryQuery(o)

Threshold == \E o \in BackendOutcomes : thresholdStep(o)

Dashboard == \E a \in Applications, k \in GroupKinds : getDashboard(a, k)

Next == Request \/ Primary \/ Threshold \/ respond \/ Dashboard

Spec == Init /\ [][Next]_vars

\* The transport: two runs of the provider that differ in the API key only.
InitTransport ==
    /\ config = ConfigTree(TRUE, <<>>)
    /\ built = config
    /\ req = Nil
    /\ pc = "idle"
    /\ duration = 0
    /\ graph = NoGraph
    /\ notFoundAt = 0
    /\ idx = 0
    /\ data = EmptyData
    /\ resp = NoResp
    /\ attempts = <<>>
    /\ calls = <<>>
    /\ dashResp = NoDashResp
    /\ \E ka, kb \in ApiKeys :
          /\ (ka = <<>>) = (kb = <<>>)
          /\ headers = [r \in Runs |-> initHeaders(IF r = "A" THEN ka ELSE kb)]
    /\ outHeader = [r \in Runs |-> {}]
    /\ log = [r \in Runs |-> <<>>]
    /\ tpc = 0

Transport == \E u \in URLs, h \in ClientHeaders : RoundTrip(u, h)

NextTransport == Transport

SpecTransport == InitTransport /\ [][NextTransport]_vars

-----------------------------------------------------------------------------
(* Properties *)

HourMs == 3600000

\* The thresholds of the graph the request resolved.
Configured == IF graph = NoGraph THEN <<>> ELSE GraphAt(config, graph).Thresholds

\* The backend answered the call with warnings and no transport error.
Warned(c) == ~c.outcome.err /\ c.outcome.warnings # <<>>

\* The query of threshold k (0: the primary query) failed: its template was
\* not sent, or the backend answered with an error, with warnings or with a
\* value that cannot be marshaled.
QueryFailed(k) ==
    \/ /\ \E i \in DOMAIN attempts : attempts[i].threshold = k
       /\ \A i \in DOMAIN calls : calls[i].threshold # k
    \/ \E i \in DOMAIN calls :
          /\ calls[i].threshold = k
          /\ \/ calls[i].outcome.err
             \/ calls[i].outcome.warnings # <<>>
             \/ calls[i].outcome.result = "unmarshalable"

\* C1: with a valid duration, a lookup that finds no application, dashboard,
\* row or graph ends the request with a 400 response and no backend call.
C1_NotFoundIsBadRequest ==
    (pc = "done" /\ notFoundAt # 0) =>
        (resp.status = StatusBadRequest /\ calls = <<>>)

\* C2: once the backend has answered a range query of the request with
\* warnings and no transport error, the request has ended with a 400
\* response, whatever data came with the warnings.
C2_WarningsAreFatal ==
    \A i \in DOMAIN calls :
        Warned(calls[i]) => (pc = "done" /\ resp.status = StatusBadRequest)

\* C2 witness: a threshold query answered with a non-empty vector and a
\* warning, after the primary query succeeded.
C2_Witness ==
    /\ pc = "done"
    /\ \E i \in DOMAIN calls :
          /\ calls[i].threshold > 0
          /\ Warned(calls[i])
          /\ calls[i].outcome.result = "vector"

\* C3: for every threshold executed, the text handed to rendering is the
\* value when the value is non-empty (and then the literal value is what the
\* backend receives) and the queryExpression only when the value is empty.
C3_ThresholdPrecedence ==
    /\ \A i \in DOMAIN attempts :
          attempts[i].threshold > 0 =>
              LET t == Configured[attempts[i].threshold]
              IN  IF t.Value # <<>>
                  THEN attempts[i].field = "Value" /\ attempts[i].expr = t.Value
                  ELSE /\ attempts[i].field = "QueryExpression"
                       /\ attempts[i].expr = t.QueryExpression
    /\ \A i \in DOMAIN calls :
          (calls[i].threshold > 0 /\ Configured[calls[i].threshold].Value = LiteralTmpl)
              => calls[i].call.query = LiteralTmpl

\* C3 witness: a threshold with a value and a queryExpression that cannot be
\* rendered was executed, and the request succeeded.
C3_Witness ==
    /\ pc = "done"
    /\ resp.status = StatusOK
    /\ \E i \in DOMAIN calls :
          /\ calls[i].threshold > 0
          /\ Configured[calls[i].threshold].Value # <<>>
          /\ Configured[calls[i].threshold].QueryExpression = ChainTmpl

\* C4: a 200 response for a resolved graph carries one threshold result per
\* configured threshold, in the configured order, and once the query of a
\* threshold has failed the response is a 400 without threshold results and
\* without primary data.
C4_ThresholdsAllOrNothing ==
    /\ (pc = "done" /\ graph # NoGraph /\ resp.status = StatusOK) =>
          /\ Len(resp.body.thresholds) = Len(Configured)
          /\ \A i \in DOMAIN Configured :
                /\ resp.body.thresholds[i].Key = Configured[i].Key
                /\ resp.body.thresholds[i].Name = Configured[i].Name
                /\ resp.body.thresholds[i].Color = Configured[i].Color
                /\ resp.body.thresholds[i].Unit = Configured[i].Unit
    /\ (\E k \in DOMAIN Configured : QueryFailed(k)) =>
          /\ pc = "done"
          /\ resp.status = StatusBadRequest
          /\ resp.body.thresholds = <<>>
          /\ resp.body.data = <<>>
          /\ resp.body.keys = {}

\* C4 witness: the first threshold succeeded and a later one failed.
C4_Witness ==
    /\ pc = "done"
    /\ Len(data.Thresholds) >= 1
    /\ QueryFailed(Len(data.Thresholds) + 1)

\* C5: without a duration parameter, or with an empty one, the handler's
\* duration is one hour and every range query spans the hour up to now; with
\* the malformed literal the request ends with a 400 response before any
\* lookup, rendering or backend call.
C5_DurationHandling ==
    /\ (pc # "idle" /\ Query(req.query, "duration") = <<>>) =>
          /\ duration = HourMs
          /\ \A i \in DOMAIN calls :
                calls[i].call.Start = 0 - HourMs /\ calls[i].call.End = 0
    /\ (pc # "idle" /\ Query(req.query, "duration") = <<"b", "o", "g", "u", "s">>) =>
          /\ pc = "done"
          /\ resp.status = StatusBadRequest
          /\ notFoundAt = 0
          /\ graph = NoGraph
          /\ attempts = <<>>
          /\ calls = <<>>

\* C5 witness: a request without a duration parameter whose primary and
\* threshold queries were sent.
C5_Witness ==
    /\ pc = "done"
    /\ req.query.duration = <<>>
    /\ Len(calls) >= 2

\* A reference of the template names a parameter the request does not supply.
Unsupplied(expr, query) ==
    \E j \in DOMAIN expr :
        /\ IsField(expr[j])
        /\ j > 1 /\ expr[j - 1] = "{{"
        /\ FieldPath(expr[j])[1] \notin DOMAIN URLQuery(query)

\* The template opens an action that is not one field reference closed by "}}".
Malformed(expr) ==
    \E j \in DOMAIN expr :
        /\ expr[j] = "{{"
        /\ ~(j + 2 <= Len(expr) /\ IsField(expr[j + 1]) /\ expr[j + 2] = "}}")

\* C6: a template that is syntactically invalid, or that references a
\* parameter the request does not supply, ends the query with an error
\* response and no backend call is issued for it.
C6_TemplateFailFast ==
    \A i \in DOMAIN attempts :
        (Malformed(attempts[i].expr) \/ Unsupplied(attempts[i].expr, req.query)) =>
            /\ \A j \in DOMAIN calls : calls[j].threshold # attempts[i].threshold
            /\ pc = "done"
            /\ resp.status = StatusBadRequest

\* C7: with an API key installed, no line of the transport's output holds the
\* key, and the outputs of two runs that differ in the key only are equal.
C7_KeyNeverLogged ==
    /\ \A r \in Runs : \A e \in headers[r].map :
          \A i \in DOMAIN log[r] : \A a \in DOMAIN log[r][i].args :
              \A b \in DOMAIN log[r][i].args[a] : log[r][i].args[a][b] # e.v
    /\ log["A"] = log["B"]

\* C8: request handling leaves every entity of the configuration tree as it
\* was built at startup.
C8_TreeNeverWritten == config = built

\* C9: every 400 response of execute has a body that carries the message of
\* the failure.
C9_FailureCarriesMessage ==
    (pc = "done" /\ resp.status = StatusBadRequest) =>
        (resp.body.kind = "string" /\ resp.body.text # "")

RECURSIVE Substitute(_, _, _)
\* The template with each reference replaced by the parameter's values
\* joined with ",", every other token and every character of a value kept.
Substitute(expr, env, i) ==
    IF i > Len(expr) THEN <<>>
    ELSE IF expr[i] = "{{"
    THEN (IF FieldPath(expr[i + 1])[1] \in DOMAIN env
          THEN Join(env[FieldPath(expr[i + 1])[1]], <<",">>) ELSE <<>>)
         \o Substitute(expr, env, i + 3)
    ELSE <<expr[i]>> \o Substitute(expr, env, i + 1)

\* C10: the query the backend receives is the literal substitution of the
\* request's parameters into the template.
C10_LiteralSubstitution ==
    \A i \in DOMAIN calls :
        \A j \in DOMAIN attempts :
            attempts[j].threshold = calls[i].threshold =>
                calls[i].call.query = Substitute(attempts[j].expr, URLQuery(req.query), 1)

====
